---- MODULE Spec2Model ----
(***************************************************************************)
(* Model of the client-side coordination hooks of src/hooks/usePerformance *)
(* (usePerformance, useLazyLoad, usePreload, useThrottle, useDebounce,     *)
(* useVirtualScroll), of hooks/useAccessibility (useFocusManagement,       *)
(* useScreenReader) and of the AccessibleModal component that uses the     *)
(* focus trap.  Each hook is a state machine of its own over the shared    *)
(* variables; a specification per hook keeps the other hooks' variables    *)
(* unchanged.                                                              *)
(***************************************************************************)
EXTENDS Integers, Sequences, FiniteSets, TLC

VARIABLES
    \* ---- usePreload ----
    loadedResources,    \* React state: Set<string> of loaded keys
    loadingResources,   \* React state: Set<string> of keys being loaded
    insts,              \* preloadImage function instances (closures), one per render
    promises,           \* promises returned by preloadImage, in creation order
    batches,            \* preloadImages calls: member promises and completion
    \* ---- useThrottle ----
    tNow,               \* clock, ms since the hook was mounted
    lastCall,           \* lastCall.current (Date.now() scale)
    timeoutRef,         \* timeoutRef.current: id of the last timer set (0: undefined)
    tTimers,            \* pending setTimeout timers of the throttle
    tMounted,           \* the owning component is mounted
    calls,              \* history: wrapper calls
    execs,              \* history: executions of the throttled callback
    \* ---- useDebounce ----
    dNow,               \* clock, ms since the hook was mounted
    value,              \* the hook's input value
    debouncedValue,     \* React state: the published value
    dTimers,            \* pending setTimeout timers of the debounce
    dHandler,           \* handler: id of the timer set by the latest effect run
    dMounted,           \* the owning component is mounted
    changes,            \* history: changes of the input
    pubs,               \* history: setDebouncedValue calls
    \* ---- useVirtualScroll ----
    itemCount,          \* prop
    itemHeight,         \* prop
    containerHeight,    \* prop
    overscan,           \* prop
    scrollTop,          \* React state: the scroll offset held
    \* ---- useFocusManagement ----
    fDom,               \* focusable elements now in the container (DOM order = id order)
    focusableElements,  \* React state: the FocusSet snapshot
    currentFocusIndex,  \* React state: the tracked index
    activeElement,      \* document.activeElement (0: an element outside the container)
    trapActive,         \* trapFocus is registered as keydown listener
    fKey,               \* the key event being dispatched, if any
    fOp,                \* the last operation of the hook
    \* ---- useScreenReader ----
    aNow,               \* clock, ms
    aNodes,             \* live-region nodes attached to document.body
    aTimers,            \* pending removal timers
    announcements,      \* React state: the messages announced
    aLog,               \* history: announce calls
    aRemoved,           \* history: ids of the nodes removed, in order
    \* ---- usePerformance ----
    pNow,               \* performance.now(), ms since the first render
    frameCount,         \* frameCount.current
    lastTime,           \* lastTime.current
    animationId,        \* animationId.current (0: undefined)
    pFrames,            \* pending requestAnimationFrame callbacks
    pInterval,          \* the memory interval: active flag and next due time
    pLoadListener,      \* measureLoadTime is registered for window 'load'
    pMemory,            \* performance.memory as the last memory sample found it
    metrics,            \* React state: the snapshot
    pMounted,           \* the owning component is mounted
    pOp,                \* the last step of the sampler
    \* ---- useLazyLoad ----
    threshold,          \* the hook's parameter, in tenths
    isVisible,          \* React state
    hasLoaded,          \* React state
    lzObserved,         \* observers that are observing the element
    lzIntersecting,     \* the element intersects the viewport
    lzEffect,           \* the last effect run: its deps and its observer
    lzMounted,          \* the owning component is mounted
    lzLog,              \* history: observer.observe(element) calls
    \* ---- useVirtualScroll.handleScroll ----
    hsNow,              \* clock, ms since the hook was mounted
    hsLastCall,         \* lastCall.current of handleScroll's throttle
    hsTimeoutRef,       \* timeoutRef.current of handleScroll's throttle
    hsTimers,           \* pending setTimeout timers of handleScroll's throttle
    hsEvents,           \* history: scroll events of the element
    hsErrors,           \* TypeErrors thrown by timer callbacks
    \* ---- AccessibleModal ----
    mMounted,           \* an AccessibleModal is mounted (it owns the focus hook)
    mIsOpen,            \* its isOpen prop
    mListeners,         \* trapFocus instances registered for document keydown
    mTimers,            \* pending setTimeout(() => focusFirst(), 100) timers
    mOpens              \* history: how often the modal has been opened

cacheVars == <<loadedResources, loadingResources, insts, promises, batches>>
throttleVars == <<tNow, lastCall, timeoutRef, tTimers, tMounted, calls, execs>>
debounceVars == <<dNow, value, debouncedValue, dTimers, dHandler, dMounted, changes, pubs>>
scrollVars == <<itemCount, itemHeight, containerHeight, overscan, scrollTop>>
focusVars == <<fDom, focusableElements, currentFocusIndex, activeElement, trapActive, fKey, fOp>>
announceVars == <<aNow, aNodes, aTimers, announcements, aLog, aRemoved>>
perfVars == <<pNow, frameCount, lastTime, animationId, pFrames, pInterval,
              pLoadListener, pMemory, metrics, pMounted, pOp>>
lazyVars == <<threshold, isVisible, hasLoaded, lzObserved, lzIntersecting, lzEffect,
              lzMounted, lzLog>>
handleVars == <<hsNow, hsLastCall, hsTimeoutRef, hsTimers, hsEvents, hsErrors>>
modalVars == <<mMounted, mIsOpen, mListeners, mTimers, mOpens>>
vars == <<cacheVars, throttleVars, debounceVars, scrollVars, focusVars, announceVars,
          perfVars, lazyVars, handleVars, modalVars>>

(***************************************************************************)
(* Bounds of the model.                                                    *)
(***************************************************************************)
\* Resource keys; promises, preloadImages calls and keys per call the model
\* creates; the polls of a waiter are counted modulo PollWrap.
Keys == {"a", "b"}
MaxPromises == 3
MaxBatches == 1
MaxBatchLen == 2
PollWrap == 2

(***************************************************************************)
(* usePreload                                                              *)
(***************************************************************************)

\* The closure a render creates: preloadImage captures the two sets as rendered.
Closure == [loaded |-> loadedResources, loading |-> loadingResources]

\* The branch preloadImage takes for key k when called through instance i.
Branch(i, k) ==
    IF k \in i.loaded THEN "hit"
    ELSE IF k \in i.loading THEN "wait"
    ELSE "load"

\* The promise preloadImage(k) returns when called through instance i. A cache
\* hit resolves at once; a waiter runs checkLoaded once (against the closure's
\* loadedResources, which does not hold k) and arms its 100 ms timer.
NewPromise(i, k) ==
    [key |-> k,
     kind |-> Branch(i, k),
     status |-> IF Branch(i, k) = "hit" THEN "resolved" ELSE "pending",
     sawLoaded |-> k \in i.loaded,
     polls |-> 0]

RECURSIVE NewPromises(_, _)
NewPromises(i, ks) ==
    IF ks = <<>> THEN <<>>
    ELSE <<NewPromise(i, Head(ks))>> \o NewPromises(i, Tail(ks))

\* Keys for which a call through instance i reaches setLoadingResources(add).
StartedBy(i, ks) ==
    {ks[n] : n \in {m \in DOMAIN ks : Branch(i, ks[m]) = "load"}}

\* Underlying image loads of k: started, and in flight (started, not settled).
Started(k) ==
    Cardinality({p \in DOMAIN promises :
        promises[p].kind = "load" /\ promises[p].key = k})

InFlight(k) ==
    Cardinality({p \in DOMAIN promises :
        promises[p].kind = "load" /\ promises[p].key = k
        /\ promises[p].status = "pending"})

isLoaded(k) == k \in loadedResources

isLoading(k) == k \in loadingResources

\* A re-render after a state change: a new preloadImage instance is created.
Render ==
    /\ Closure \notin insts
    /\ insts' = insts \cup {Closure}
    /\ UNCHANGED <<loadedResources, loadingResources, promises, batches>>
    /\ UNCHANGED <<throttleVars, debounceVars, scrollVars, focusVars, announceVars, perfVars,
                 lazyVars, handleVars,
                 modalVars>>

\* preloadImage(k), called through any instance a caller holds.
preloadImage(i, k) ==
    /\ Len(promises) < MaxPromises
    /\ promises' = Append(promises, NewPromise(i, k))
    /\ loadingResources' = loadingResources \cup StartedBy(i, <<k>>)
    /\ UNCHANGED <<loadedResources, insts, batches>>

\* preloadImages(ks): every key is requested through the preloadImage of the
\* same render, then Promise.allSettled waits for the promises.
preloadImages(i, ks) ==
    /\ Len(batches) < MaxBatches
    /\ Len(promises) + Len(ks) <= MaxPromises
    /\ promises' = promises \o NewPromises(i, ks)
    /\ loadingResources' = loadingResources \cup StartedBy(i, ks)
    /\ batches' = Append(batches,
           [members |-> (Len(promises) + 1)..(Len(promises) + Len(ks)),
            done |-> FALSE])
    /\ UNCHANGED <<loadedResources, insts>>

\* img.onload of the load promise p started.
ImgOnLoad(p) ==
    /\ p \in DOMAIN promises
    /\ promises[p].kind = "load"
    /\ promises[p].status = "pending"
    /\ loadedResources' = loadedResources \cup {promises[p].key}
    /\ loadingResources' = loadingResources \ {promises[p].key}
    /\ promises' = [promises EXCEPT ![p].status = "resolved"]
    /\ UNCHANGED <<insts, batches>>

\* img.onerror of the load promise p started.
ImgOnError(p) ==
    /\ p \in DOMAIN promises
    /\ promises[p].kind = "load"
    /\ promises[p].status = "pending"
    /\ loadingResources' = loadingResources \ {promises[p].key}
    /\ promises' = [promises EXCEPT ![p].status = "rejected"]
    /\ UNCHANGED <<loadedResources, insts, batches>>

\* The 100 ms timer of waiter p fires: checkLoaded reads the loadedResources of
\* its closure and either resolves or re-arms the timer.
checkLoaded(p) ==
    /\ p \in DOMAIN promises
    /\ promises[p].kind = "wait"
    /\ promises[p].status = "pending"
    /\ promises' = IF promises[p].sawLoaded
                   THEN [promises EXCEPT ![p].status = "resolved"]
                   ELSE [promises EXCEPT ![p].polls = (@ + 1) % PollWrap]
    /\ UNCHANGED <<loadedResources, loadingResources, insts, batches>>

\* Promise.allSettled of batch b: every member promise has settled.
AllSettled(b) ==
    /\ ~batches[b].done
    /\ \A p \in batches[b].members : promises[p].status # "pending"
    /\ batches' = [batches EXCEPT ![b].done = TRUE]
    /\ UNCHANGED <<loadedResources, loadingResources, insts, promises>>

KeyLists == UNION {[1..n -> Keys] : n \in 1..MaxBatchLen}

CacheRequest ==
    /\ \E i \in insts, k \in Keys : preloadImage(i, k)
    /\ UNCHANGED <<throttleVars, debounceVars, scrollVars, focusVars, announceVars, perfVars,
                 lazyVars, handleVars,
                 modalVars>>

CacheBatch ==
    /\ \E i \in insts, ks \in KeyLists : preloadImages(i, ks)
    /\ UNCHANGED <<throttleVars, debounceVars, scrollVars, focusVars, announceVars, perfVars,
                 lazyVars, handleVars,
                 modalVars>>

CacheOnLoad ==
    /\ \E p \in DOMAIN promises : ImgOnLoad(p)
    /\ UNCHANGED <<throttleVars, debounceVars, scrollVars, focusVars, announceVars, perfVars,
                 lazyVars, handleVars,
                 modalVars>>

CacheOnError ==
    /\ \E p \in DOMAIN promises : ImgOnError(p)
    /\ UNCHANGED <<throttleVars, debounceVars, scrollVars, focusVars, announceVars, perfVars,
                 lazyVars, handleVars,
                 modalVars>>

CachePoll ==
    /\ \E p \in DOMAIN promises : checkLoaded(p)
    /\ UNCHANGED <<throttleVars, debounceVars, scrollVars, focusVars, announceVars, perfVars,
                 lazyVars, handleVars,
                 modalVars>>

CacheAllSettled ==
    /\ \E b \in DOMAIN batches : AllSettled(b)
    /\ UNCHANGED <<throttleVars, debounceVars, scrollVars, focusVars, announceVars, perfVars,
                 lazyVars, handleVars,
                 modalVars>>

(***************************************************************************)
(* useThrottle                                                             *)
(***************************************************************************)
\* The delay parameter, and Date.now() at the time the hook is mounted.
ThrottleDelay == 20
Epoch == 100

\* The clock runs in steps of 1 ms up to MaxTime; inputs (wrapper calls, value
\* changes) arrive at multiples of CallGrid ms, at most MaxCalls of them; the
\* host runs a due timer at most MaxLate ms after its due time.
MaxTime == 45
MaxCalls == 4
MaxLate == 2
CallGrid == 5

\* Date.now(): the hook is mounted at Epoch on the Date.now() scale, which is
\* at least one delay after 0, the initial lastCall.current.
DateNow == Epoch + tNow

\* clearTimeout(id): cancels the pending timer of that id, if any.
ClearTimeout(timers, id) == {tm \in timers : tm.id # id}

\* The delay handed to setTimeout in the trailing branch.
TrailingDelayFull == ThrottleDelay

TrailingDelay == ThrottleDelay - (DateNow - lastCall)

\* The wrapper, called with the arguments of call number n.
ThrottledCall(n) ==
    IF DateNow - lastCall >= ThrottleDelay
    THEN /\ lastCall' = DateNow
         /\ execs' = Append(execs,
                [t |-> tNow, args |-> n, trailing |-> FALSE, due |-> tNow,
                 nc |-> n])
         /\ calls' = Append(calls,
                [t |-> tNow, leading |-> TRUE, prevExec |-> Len(execs)])
         /\ UNCHANGED <<timeoutRef, tTimers>>
    ELSE /\ tTimers' = ClearTimeout(tTimers, timeoutRef)
                \cup {[id |-> n, due |-> tNow + TrailingDelay, args |-> n]}
         /\ timeoutRef' = n
         /\ calls' = Append(calls,
                [t |-> tNow, leading |-> FALSE, prevExec |-> Len(execs)])
         /\ UNCHANGED <<lastCall, execs>>

\* An event of the mounted component calls the wrapper.
ThrottleCall ==
    /\ tMounted
    /\ Len(calls) < MaxCalls
    /\ tNow % CallGrid = 0
    /\ ThrottledCall(Len(calls) + 1)
    /\ UNCHANGED <<tNow, tMounted>>
    /\ UNCHANGED <<cacheVars, debounceVars, scrollVars, focusVars, announceVars, perfVars,
                 lazyVars, handleVars,
                 modalVars>>

\* The callback of a trailing timer runs, at or after its due time.
TrailingFire(tm) ==
    /\ tm \in tTimers
    /\ tNow >= tm.due
    /\ lastCall' = DateNow
    /\ execs' = Append(execs,
           [t |-> tNow, args |-> tm.args, trailing |-> TRUE, due |-> tm.due,
            nc |-> Len(calls)])
    /\ tTimers' = tTimers \ {tm}
    /\ UNCHANGED <<tNow, timeoutRef, tMounted, calls>>

ThrottleTimer ==
    /\ \E tm \in tTimers : TrailingFire(tm)
    /\ UNCHANGED <<cacheVars, debounceVars, scrollVars, focusVars, announceVars, perfVars,
                 lazyVars, handleVars,
                 modalVars>>

\* The owning component unmounts: useThrottle registers no cleanup.
ThrottleUnmount ==
    /\ tMounted
    /\ tMounted' = FALSE
    /\ UNCHANGED <<tNow, lastCall, timeoutRef, tTimers, calls, execs>>
    /\ UNCHANGED <<cacheVars, debounceVars, scrollVars, focusVars, announceVars, perfVars,
                 lazyVars, handleVars,
                 modalVars>>

\* One millisecond passes; a due timer is run at most MaxLate ms late.
ThrottleTick ==
    /\ tNow < MaxTime
    /\ \A tm \in tTimers : tNow < tm.due + MaxLate
    /\ tNow' = tNow + 1
    /\ UNCHANGED <<lastCall, timeoutRef, tTimers, tMounted, calls, execs>>
    /\ UNCHANGED <<cacheVars, debounceVars, scrollVars, focusVars, announceVars, perfVars,
                 lazyVars, handleVars,
                 modalVars>>

(***************************************************************************)
(* useDebounce                                                             *)
(***************************************************************************)
\* The delay parameter; the changes of the input the model makes, and the
\* values the input takes (0 at mount).
DebounceDelay == 20
MaxChanges == 3
DValues == {0, 1, 2}

\* The cleanup of the effect: clearTimeout(handler).
EffectCleanupSkipped(timers) == timers

EffectCleanup(timers) == ClearTimeout(timers, dHandler)

\* The effect body: setTimeout(() => setDebouncedValue(value), delay).
EffectTimer(v) == [id |-> dHandler + 1, due |-> dNow + DebounceDelay, v |-> v]

\* The input changes to v: the component re-renders, the previous effect is
\* cleaned up and the effect runs again (deps [value, delay]).
DebounceChange ==
    /\ dMounted
    /\ Len(changes) < MaxChanges
    /\ dNow % CallGrid = 0
    /\ \E v \in DValues \ {value} :
        /\ value' = v
        /\ dTimers' = EffectCleanup(dTimers) \cup {EffectTimer(v)}
        /\ dHandler' = dHandler + 1
        /\ changes' = Append(changes, [t |-> dNow, v |-> v])
    /\ UNCHANGED <<dNow, debouncedValue, dMounted, pubs>>
    /\ UNCHANGED <<cacheVars, throttleVars, scrollVars, focusVars, announceVars, perfVars,
                 lazyVars, handleVars,
                 modalVars>>

\* The callback of a debounce timer runs, at or after its due time.
DebounceFire(tm) ==
    /\ tm \in dTimers
    /\ dNow >= tm.due
    /\ debouncedValue' = tm.v
    /\ pubs' = Append(pubs,
           [t |-> dNow, v |-> tm.v, due |-> tm.due, nch |-> Len(changes)])
    /\ dTimers' = dTimers \ {tm}
    /\ UNCHANGED <<dNow, value, dHandler, dMounted, changes>>

DebounceTimer ==
    /\ \E tm \in dTimers : DebounceFire(tm)
    /\ UNCHANGED <<cacheVars, throttleVars, scrollVars, focusVars, announceVars, perfVars,
                 lazyVars, handleVars,
                 modalVars>>

\* The owning component unmounts: the effect's cleanup runs.
DebounceUnmount ==
    /\ dMounted
    /\ dMounted' = FALSE
    /\ dTimers' = EffectCleanup(dTimers)
    /\ UNCHANGED <<dNow, value, debouncedValue, dHandler, changes, pubs>>
    /\ UNCHANGED <<cacheVars, throttleVars, scrollVars, focusVars, announceVars, perfVars,
                 lazyVars, handleVars,
                 modalVars>>

\* One millisecond passes; a due timer is run at most MaxLate ms late.
DebounceTick ==
    /\ dNow < MaxTime
    /\ \A tm \in dTimers : dNow < tm.due + MaxLate
    /\ dNow' = dNow + 1
    /\ UNCHANGED <<value, debouncedValue, dTimers, dHandler, dMounted, changes, pubs>>
    /\ UNCHANGED <<cacheVars, throttleVars, scrollVars, focusVars, announceVars, perfVars,
                 lazyVars, handleVars,
                 modalVars>>

(***************************************************************************)
(* useVirtualScroll                                                        *)
(***************************************************************************)
\* Props and scroll offsets the model draws: small values, and the values of
\* the documented example (100 items of 40 px, container 400, offset 800).
DefaultOverscan == 5
MaxItems == 3
MaxHeight == 3
MaxContainer == 4
MaxScroll == 8
MaxOverscan == 2
ItemCounts == 0..MaxItems \cup {100}
ItemHeights == -1..MaxHeight \cup {40}
ContainerHeights == 0..MaxContainer \cup {400}
ScrollOffsets == 0..MaxScroll \cup {800}
Overscans == 0..MaxOverscan \cup {DefaultOverscan}

\* JavaScript numbers: an integer, NaN or an infinity (sign 1 or -1).
Num(n) == <<"num", n>>
NaN == <<"nan", 0>>
Inf(sign) == <<"inf", sign>>
IsNum(x) == x[1] = "num"

\* x < y on JavaScript numbers (false when either is NaN).
JsLess(x, y) ==
    CASE x = NaN \/ y = NaN -> FALSE
      [] IsNum(x) /\ IsNum(y) -> x[2] < y[2]
      [] IsNum(x) -> y = Inf(1)
      [] IsNum(y) -> x = Inf(-1)
      [] OTHER -> x[2] < y[2]

MathMax(x, y) ==
    IF x = NaN \/ y = NaN THEN NaN ELSE IF JsLess(x, y) THEN y ELSE x

MathMin(x, y) ==
    IF x = NaN \/ y = NaN THEN NaN ELSE IF JsLess(y, x) THEN y ELSE x

\* x + y for an integer y.
JsAdd(x, y) == IF IsNum(x) THEN Num(x[2] + y) ELSE x

\* x * y for an integer y.
JsMul(x, y) ==
    CASE IsNum(x) -> Num(x[2] * y)
      [] x = NaN \/ y = 0 -> NaN
      [] OTHER -> Inf(IF y > 0 THEN x[2] ELSE -x[2])

\* Math.floor(a / b) for integers a and b.
JsSub(x, y) ==
    CASE x = NaN \/ y = NaN -> NaN
      [] IsNum(x) /\ IsNum(y) -> Num(x[2] - y[2])
      [] IsNum(x) -> Inf(-y[2])
      [] IsNum(y) -> x
      [] OTHER -> IF x = y THEN NaN ELSE x

MathFloorDiv(a, b) ==
    CASE b > 0 -> Num(a \div b)
      [] b < 0 -> Num((-a) \div (-b))
      [] a = 0 -> NaN
      [] OTHER -> Inf(IF a > 0 THEN 1 ELSE -1)

getVisibleRangeNoOverscan ==
    [startIndex |-> MathMax(Num(0), MathFloorDiv(scrollTop, itemHeight)),
     endIndex |-> MathMin(Num(itemCount - 1),
                     MathFloorDiv(scrollTop + containerHeight, itemHeight))]

getVisibleRangeEndAtLeastZero ==
    LET startIndex == MathFloorDiv(scrollTop, itemHeight)
        endIndex == MathMin(Num(itemCount - 1),
                       MathFloorDiv(scrollTop + containerHeight, itemHeight))
    IN  [startIndex |-> MathMax(Num(0), JsAdd(startIndex, -overscan)),
         endIndex |-> MathMax(Num(0),
                         MathMin(Num(itemCount - 1), JsAdd(endIndex, overscan)))]

\* getVisibleRange(), as the render computes it from the props and scrollTop.
getVisibleRange ==
    LET startIndex == MathFloorDiv(scrollTop, itemHeight)
        endIndex == MathMin(Num(itemCount - 1),
                       MathFloorDiv(scrollTop + containerHeight, itemHeight))
    IN  [startIndex |-> MathMax(Num(0), JsAdd(startIndex, -overscan)),
         endIndex |-> MathMin(Num(itemCount - 1), JsAdd(endIndex, overscan))]

\* What the hook returns.
startIndex == getVisibleRange.startIndex
endIndex == getVisibleRange.endIndex
totalHeight == Num(itemCount * itemHeight)
offsetY == JsMul(startIndex, itemHeight)
visibleItems == JsAdd(JsSub(endIndex, startIndex), 1)

\* The hook validates nothing and has no throw statement: a render returns.
useVirtualScrollThrows == FALSE

\* The throttled scroll callback runs: setScrollTop(e.currentTarget.scrollTop).
VsScroll ==
    /\ \E o \in ScrollOffsets \ {scrollTop} : scrollTop' = o
    /\ UNCHANGED <<itemCount, itemHeight, containerHeight, overscan>>
    /\ UNCHANGED <<cacheVars, throttleVars, debounceVars, focusVars, announceVars, perfVars,
                 lazyVars, handleVars,
                 modalVars>>

\* The owner re-renders the hook with one prop changed; scrollTop is kept.
VsItemCount ==
    /\ \E n \in ItemCounts \ {itemCount} : itemCount' = n
    /\ UNCHANGED <<itemHeight, containerHeight, overscan, scrollTop>>
    /\ UNCHANGED <<cacheVars, throttleVars, debounceVars, focusVars, announceVars, perfVars,
                 lazyVars, handleVars,
                 modalVars>>

VsItemHeight ==
    /\ \E h \in ItemHeights \ {itemHeight} : itemHeight' = h
    /\ UNCHANGED <<itemCount, containerHeight, overscan, scrollTop>>
    /\ UNCHANGED <<cacheVars, throttleVars, debounceVars, focusVars, announceVars, perfVars,
                 lazyVars, handleVars,
                 modalVars>>

VsContainerHeight ==
    /\ \E c \in ContainerHeights \ {containerHeight} : containerHeight' = c
    /\ UNCHANGED <<itemCount, itemHeight, overscan, scrollTop>>
    /\ UNCHANGED <<cacheVars, throttleVars, debounceVars, focusVars, announceVars, perfVars,
                 lazyVars, handleVars,
                 modalVars>>

VsOverscan ==
    /\ \E o \in Overscans \ {overscan} : overscan' = o
    /\ UNCHANGED <<itemCount, itemHeight, containerHeight, scrollTop>>
    /\ UNCHANGED <<cacheVars, throttleVars, debounceVars, focusVars, announceVars, perfVars,
                 lazyVars, handleVars,
                 modalVars>>

\* Mount: an empty list of 1 px rows, overscan defaulted, useState(0). Every
\* other combination of props is reached by re-renders.
ScrollInit ==
    /\ itemCount = 0
    /\ itemHeight = 1
    /\ containerHeight = 0
    /\ overscan = DefaultOverscan
    /\ scrollTop = 0

(***************************************************************************)
(* useFocusManagement                                                      *)
(***************************************************************************)
\* Elements that can be in the container; 0 stands for the rest of the page.
MaxElems == 3
Elems == 1..MaxElems
Outside == 0
NoKey == [key |-> "none", shift |-> FALSE, prevented |-> FALSE]

\* A set of elements in DOM order.
RECURSIVE SeqOf(_)
SeqOf(S) ==
    IF S = {} THEN <<>>
    ELSE LET m == CHOOSE x \in S : \A y \in S : x <= y
         IN  <<m>> \o SeqOf(S \ {m})

\* getFocusableElements(): the container's focusable elements, in DOM order.
getFocusableElements == SeqOf(fDom)

length == Len(focusableElements)

\* element.focus(): moves the document focus if the element is still there.
FocusCall(e, active) == IF e \in fDom THEN e ELSE active

\* focusElement(index) (indices count from 0): the focus and the tracked index
\* after the call.
focusElement(index) ==
    IF index >= 0 /\ index < length
    THEN [active |-> FocusCall(focusableElements[index + 1], activeElement),
          index |-> index]
    ELSE [active |-> activeElement, index |-> currentFocusIndex]

\* (currentFocusIndex + 1) % length; NaN for length 0, which like -1 fails the
\* range test of focusElement.
nextIndex == IF length = 0 THEN -1 ELSE (currentFocusIndex + 1) % length

prevIndex ==
    IF currentFocusIndex <= 0 THEN length - 1 ELSE currentFocusIndex - 1

\* One of the four focus movements, as focusElement(index).
FocusMove(op, index) ==
    /\ activeElement' = focusElement(index).active
    /\ currentFocusIndex' = focusElement(index).index
    /\ fOp' = op
    /\ UNCHANGED <<fDom, focusableElements, trapActive, fKey>>
    /\ UNCHANGED <<cacheVars, throttleVars, debounceVars, scrollVars, announceVars, perfVars,
                 lazyVars, handleVars,
                 modalVars>>

focusFirst ==
    /\ fKey = NoKey
    /\ FocusMove("focusFirst", 0)

focusLast ==
    /\ fKey = NoKey
    /\ FocusMove("focusLast", length - 1)

focusNext ==
    /\ fKey = NoKey
    /\ FocusMove("focusNext", nextIndex)

focusPrevious ==
    /\ fKey = NoKey
    /\ FocusMove("focusPrevious", prevIndex)


\* updateFocusableElements(): setFocusableElements(getFocusableElements()).
updateFocusableElements ==
    /\ fKey = NoKey
    /\ focusableElements' = getFocusableElements
    /\ fOp' = "refresh"
    /\ UNCHANGED <<fDom, currentFocusIndex, activeElement, trapActive, fKey>>
    /\ UNCHANGED <<cacheVars, throttleVars, debounceVars, scrollVars, announceVars, perfVars,
                 lazyVars, handleVars,
                 modalVars>>

trapFocusNeverPrevents(key, shift) ==
    [prevented |-> FALSE, active |-> activeElement, index |-> currentFocusIndex]

\* trapFocus(event): whether it calls preventDefault, and the focus and index
\* it leaves.
trapFocus(key, shift) ==
    IF key # "Tab"
    THEN [prevented |-> FALSE, active |-> activeElement,
          index |-> currentFocusIndex]
    ELSE IF length = 0
    THEN [prevented |-> TRUE, active |-> activeElement,
          index |-> currentFocusIndex]
    ELSE IF shift
    THEN IF activeElement = focusableElements[1]
         THEN [prevented |-> TRUE] @@ focusElement(length - 1)
         ELSE [prevented |-> FALSE, active |-> activeElement,
               index |-> currentFocusIndex]
    ELSE IF activeElement = focusableElements[length]
         THEN [prevented |-> TRUE] @@ focusElement(0)
         ELSE [prevented |-> FALSE, active |-> activeElement,
               index |-> currentFocusIndex]

\* A keydown event is dispatched: trapFocus runs if it is registered.
FocusKeyDown ==
    /\ fKey = NoKey
    /\ \E key \in {"Tab", "Enter"}, shift \in BOOLEAN :
        LET r == IF trapActive THEN trapFocus(key, shift)
                 ELSE [prevented |-> FALSE, active |-> activeElement,
                       index |-> currentFocusIndex]
        IN  /\ fKey' = [key |-> key, shift |-> shift, prevented |-> r.prevented]
            /\ activeElement' = r.active
            /\ currentFocusIndex' = r.index
    /\ fOp' = "keydown"
    /\ UNCHANGED <<fDom, focusableElements, trapActive>>
    /\ UNCHANGED <<cacheVars, throttleVars, debounceVars, scrollVars, announceVars, perfVars,
                 lazyVars, handleVars,
                 modalVars>>

\* The page's tab order: the outside, then the container's elements.
TabOrder == <<Outside>> \o SeqOf(fDom)

\* Where the browser's own Tab (Shift+Tab) handling moves the focus.
TabTarget(active, shift) ==
    LET n == Len(TabOrder)
        at == CHOOSE i \in 1..n : TabOrder[i] = active
    IN  IF shift THEN TabOrder[IF at = 1 THEN n ELSE at - 1]
        ELSE TabOrder[IF at = n THEN 1 ELSE at + 1]

\* The browser's default action for the dispatched key, unless prevented.
FocusDefault ==
    /\ fKey # NoKey
    /\ activeElement' =
           IF fKey.key = "Tab" /\ ~fKey.prevented
           THEN TabTarget(activeElement, fKey.shift)
           ELSE activeElement
    /\ fKey' = NoKey
    /\ fOp' = "default"
    /\ UNCHANGED <<fDom, focusableElements, currentFocusIndex, trapActive>>
    /\ UNCHANGED <<cacheVars, throttleVars, debounceVars, scrollVars, announceVars, perfVars,
                 lazyVars, handleVars,
                 modalVars>>

\* The container's content changes; a removed element loses the focus.
FocusDomMutate ==
    /\ fKey = NoKey
    /\ \E d \in (SUBSET Elems) \ {fDom} :
        /\ fDom' = d
        /\ activeElement' = IF activeElement \in d THEN activeElement ELSE Outside
    /\ fOp' = "mutate"
    /\ UNCHANGED <<focusableElements, currentFocusIndex, trapActive, fKey>>
    /\ UNCHANGED <<cacheVars, throttleVars, debounceVars, scrollVars, announceVars, perfVars,
                 lazyVars, handleVars,
                 modalVars>>

\* The user focuses an element with the pointer.
FocusUser ==
    /\ fKey = NoKey
    /\ \E e \in (fDom \cup {Outside}) \ {activeElement} : activeElement' = e
    /\ fOp' = "pointer"
    /\ UNCHANGED <<fDom, focusableElements, currentFocusIndex, trapActive, fKey>>
    /\ UNCHANGED <<cacheVars, throttleVars, debounceVars, scrollVars, announceVars, perfVars,
                 lazyVars, handleVars,
                 modalVars>>

\* AccessibleModal's effect: document.addEventListener('keydown', trapFocus)
\* while open, removeEventListener on close.
TrapToggle ==
    /\ fKey = NoKey
    /\ trapActive' = ~trapActive
    /\ fOp' = "trap"
    /\ UNCHANGED <<fDom, focusableElements, currentFocusIndex, activeElement, fKey>>
    /\ UNCHANGED <<cacheVars, throttleVars, debounceVars, scrollVars, announceVars, perfVars,
                 lazyVars, handleVars,
                 modalVars>>

\* Mount with two focusable elements in the container: the hook's effect has
\* taken the first snapshot, nothing is tracked, the focus is outside.
FocusInit ==
    /\ fDom = {1, 2}
    /\ focusableElements = <<1, 2>>
    /\ currentFocusIndex = -1
    /\ activeElement = Outside
    /\ trapActive = FALSE
    /\ fKey = NoKey
    /\ fOp = "mount"

(***************************************************************************)
(* useScreenReader                                                         *)
(***************************************************************************)
\* The removal delay; the clock runs in steps of AnnStep ms; the model makes
\* at most MaxAnnounce calls, none after AnnMaxTime.
RemoveDelay == 1000
AnnStep == 500
AnnMaxTime == 500
MaxAnnounce == 3
Messages == {"m1", "m2"}
Priorities == {"polite", "assertive", "undefined"}

\* The default value of the priority parameter.
PriorityOf(p) == IF p = "undefined" THEN "polite" ELSE p

\* document.body.appendChild(liveRegion) for the node of call number n.
AppendChildShared(nodes, n, message, priority) ==
    {[id |-> 1, priority |-> PriorityOf(priority), text |-> message]}

AppendChild(nodes, n, message, priority) ==
    nodes \cup {[id |-> n, priority |-> PriorityOf(priority), text |-> message]}

\* document.body.removeChild(liveRegion) for the node of call number n.
RemoveChildAll(nodes, n) == {}

RemoveChild(nodes, n) == {x \in nodes : x.id # n}

\* announce(message, priority).
announce(message, priority) ==
    LET n == Len(aLog) + 1
    IN  /\ announcements' = Append(announcements, message)
        /\ aNodes' = AppendChild(aNodes, n, message, priority)
        /\ aTimers' = aTimers \cup {[id |-> n, due |-> aNow + RemoveDelay]}
        /\ aLog' = Append(aLog,
               [t |-> aNow, message |-> message, priority |-> priority])
        /\ UNCHANGED <<aNow, aRemoved>>

Announce ==
    /\ Len(aLog) < MaxAnnounce
    /\ aNow <= AnnMaxTime
    /\ \E message \in Messages, priority \in Priorities :
           announce(message, priority)
    /\ UNCHANGED <<cacheVars, throttleVars, debounceVars, scrollVars, focusVars, perfVars,
                 lazyVars, handleVars,
                 modalVars>>

\* The removal timer of a node fires, at or after its due time.
AnnounceRemove ==
    /\ \E tm \in aTimers :
        /\ aNow >= tm.due
        /\ aNodes' = RemoveChild(aNodes, tm.id)
        /\ aTimers' = aTimers \ {tm}
        /\ aRemoved' = Append(aRemoved, [id |-> tm.id, t |-> aNow])
    /\ UNCHANGED <<aNow, announcements, aLog>>
    /\ UNCHANGED <<cacheVars, throttleVars, debounceVars, scrollVars, focusVars, perfVars,
                 lazyVars, handleVars,
                 modalVars>>

\* Time passes; a due timer is run before the clock moves past it.
AnnounceTick ==
    /\ aNow <= AnnMaxTime \/ aTimers # {}
    /\ \A tm \in aTimers : aNow < tm.due
    /\ aNow' = aNow + AnnStep
    /\ UNCHANGED <<aNodes, aTimers, announcements, aLog, aRemoved>>
    /\ UNCHANGED <<cacheVars, throttleVars, debounceVars, scrollVars, focusVars, perfVars,
                 lazyVars, handleVars,
                 modalVars>>

AnnounceInit ==
    /\ aNow = 0
    /\ aNodes = {}
    /\ aTimers = {}
    /\ announcements = <<>>
    /\ aLog = <<>>
    /\ aRemoved = <<>>

(***************************************************************************)
(* usePerformance                                                          *)
(***************************************************************************)
\* The clock runs in steps of PerfStep ms up to PerfMaxTime; the memory
\* interval's period; heap sizes the host reports (bytes) and load times (ms).
PerfStep == 500
PerfMaxTime == 6000
MemoryPeriod == 5000
MegaByte == 1048576
HeapSizes == {0, 524288, 1572864, 3145728}
LoadTimes == {0, 1200}
NoProbe == [present |-> FALSE, usedJSHeapSize |-> 0, totalJSHeapSize |-> 0]
Probes ==
    {NoProbe} \cup
    [present : {TRUE}, usedJSHeapSize : HeapSizes, totalJSHeapSize : HeapSizes]

\* Math.round(n / d) for n >= 0, d > 0: halves round up.
MathRoundFloor(n, d) == n \div d

MathRound(n, d) == (2 * n + d) \div (2 * d)

\* cancelAnimationFrame(id), clearInterval(id).
CancelNothing(frames, id) == frames

CancelAnimationFrame(frames, id) == {f \in frames : f.id # id}

\* setMetrics(prev => ({ ...prev, memoryUsage: memory })).
SetMemoryFresh(prev, memory) ==
    [loadTime |-> 0, renderTime |-> 0, memoryUsage |-> memory, fps |-> 0]

SetMemory(prev, memory) == [prev EXCEPT !.memoryUsage = memory]

\* getMemoryUsage(): null (here: present = FALSE) without the probe.
getMemoryUsage(probe) ==
    IF probe.present
    THEN LET used == MathRound(probe.usedJSHeapSize, MegaByte)
             total == MathRound(probe.totalJSHeapSize, MegaByte)
         IN  [present |-> TRUE,
              memory |-> [used |-> used, total |-> total,
                          percentage |-> IF total > 0
                                         THEN MathRound(used * 100, total)
                                         ELSE 0]]
    ELSE [present |-> FALSE, memory |-> metrics.memoryUsage]

\* measureFPS(), run as the callback of the pending frame f.
measureFPS(f) ==
    LET now == pNow
        count == frameCount + 1
    IN  /\ IF now - lastTime >= 1000
           THEN /\ metrics' = [metrics EXCEPT
                       !.fps = MathRound(count * 1000, now - lastTime)]
                /\ frameCount' = 0
                /\ lastTime' = now
           ELSE /\ frameCount' = count
                /\ UNCHANGED <<metrics, lastTime>>
        /\ animationId' = animationId + 1
        /\ pFrames' = (pFrames \ {f}) \cup {[id |-> animationId + 1, at |-> now]}

\* An animation frame: the browser runs a callback requested before it.
SamplerFrame ==
    /\ \E f \in pFrames :
        /\ pNow > f.at
        /\ measureFPS(f)
    /\ pOp' = "frame"
    /\ UNCHANGED <<pNow, pInterval, pLoadListener, pMemory, pMounted>>
    /\ UNCHANGED <<cacheVars, throttleVars, debounceVars, scrollVars, focusVars, announceVars,
                 lazyVars, handleVars,
                 modalVars>>

\* The memory interval fires and is due again one period later; the host
\* exposes performance.memory with some figures, or not at all.
SamplerMemory ==
    /\ pInterval.active
    /\ pNow >= pInterval.due
    /\ \E m \in Probes :
        /\ pMemory' = m
        /\ metrics' = IF getMemoryUsage(m).present
                      THEN SetMemory(metrics, getMemoryUsage(m).memory)
                      ELSE metrics
    /\ pInterval' = [pInterval EXCEPT !.due = @ + MemoryPeriod]
    /\ pOp' = "memory"
    /\ UNCHANGED <<pNow, frameCount, lastTime, animationId, pFrames,
                   pLoadListener, pMounted>>
    /\ UNCHANGED <<cacheVars, throttleVars, debounceVars, scrollVars, focusVars, announceVars,
                 lazyVars, handleVars,
                 modalVars>>

\* The window's load event: measureLoadTime publishes the load time.
SamplerLoad ==
    /\ pLoadListener
    /\ \E t \in LoadTimes : metrics' = [metrics EXCEPT !.loadTime = t]
    /\ pLoadListener' = FALSE
    /\ pOp' = "load"
    /\ UNCHANGED <<pNow, frameCount, lastTime, animationId, pFrames, pInterval,
                   pMemory, pMounted>>
    /\ UNCHANGED <<cacheVars, throttleVars, debounceVars, scrollVars, focusVars, announceVars,
                 lazyVars, handleVars,
                 modalVars>>

\* The effect's cleanup at unmount.
SamplerUnmount ==
    /\ pMounted
    /\ pMounted' = FALSE
    /\ pFrames' = IF animationId # 0
                  THEN CancelAnimationFrame(pFrames, animationId)
                  ELSE pFrames
    /\ pInterval' = [pInterval EXCEPT !.active = FALSE]
    /\ pLoadListener' = FALSE
    /\ pOp' = "unmount"
    /\ UNCHANGED <<pNow, frameCount, lastTime, animationId, pMemory, metrics>>
    /\ UNCHANGED <<cacheVars, throttleVars, debounceVars, scrollVars, focusVars, announceVars,
                 lazyVars, handleVars,
                 modalVars>>

\* Time passes; the interval's callback is run when due.
SamplerTick ==
    /\ pNow < PerfMaxTime
    /\ pInterval.active => pNow < pInterval.due
    /\ pNow' = pNow + PerfStep
    /\ pOp' = "time"
    /\ UNCHANGED <<frameCount, lastTime, animationId, pFrames, pInterval,
                   pLoadListener, pMemory, metrics, pMounted>>
    /\ UNCHANGED <<cacheVars, throttleVars, debounceVars, scrollVars, focusVars, announceVars,
                 lazyVars, handleVars,
                 modalVars>>

\* After the mount effect: measureFPS() has run once and requested a frame,
\* the interval is armed, the page has not finished loading.
PerfInit ==
    /\ pNow = 0
    /\ frameCount = 1
    /\ lastTime = 0
    /\ animationId = 1
    /\ pFrames = {[id |-> 1, at |-> 0]}
    /\ pInterval = [active |-> TRUE, due |-> MemoryPeriod]
    /\ pLoadListener = TRUE
    /\ pMemory = NoProbe
    /\ metrics = [loadTime |-> 0, renderTime |-> 0,
                  memoryUsage |-> [used |-> 0, total |-> 0, percentage |-> 0],
                  fps |-> 0]
    /\ pMounted = TRUE
    /\ pOp = "mount"

(***************************************************************************)
(* useLazyLoad                                                             *)
(***************************************************************************)
\* Thresholds the owner passes (tenths; 1 is the default 0.1) and the number
\* of observe calls the model follows.
Thresholds == {1, 5, 10}
MaxObserve == 4

\* The effect body: a new IntersectionObserver whose callback captures the
\* hasLoaded of this render, and observer.observe(element), which queues a
\* first notification.
RunEffect(observed, th) ==
    LET id == Len(lzLog) + 1
    IN  /\ lzObserved' = observed
               \cup {[id |-> id, hasLoaded |-> hasLoaded, notify |-> TRUE]}
        /\ lzEffect' = [threshold |-> th, hasLoaded |-> hasLoaded, observer |-> id]
        /\ lzLog' = Append(lzLog, [threshold |-> th, hasLoaded |-> hasLoaded])

\* observer.unobserve(element).
Unobserve(observed, id) == {o \in observed : o.id # id}

\* The observer's callback runs with the queued entry for the element.
LazyIntersect ==
    /\ \E o \in lzObserved :
        /\ o.notify
        /\ IF lzIntersecting /\ ~o.hasLoaded
           THEN /\ isVisible' = TRUE
                /\ hasLoaded' = TRUE
                /\ lzObserved' = Unobserve(lzObserved, o.id)
           ELSE /\ lzObserved' = Unobserve(lzObserved, o.id)
                       \cup {[o EXCEPT !.notify = FALSE]}
                /\ UNCHANGED <<isVisible, hasLoaded>>
    /\ UNCHANGED <<threshold, lzIntersecting, lzEffect, lzMounted, lzLog>>
    /\ UNCHANGED <<cacheVars, throttleVars, debounceVars, scrollVars, focusVars, announceVars, perfVars, handleVars,
                 modalVars>>

\* The re-render after setHasLoaded: hasLoaded is a dependency of the effect,
\* so its cleanup runs and the effect runs again.
LazyRender ==
    /\ lzMounted
    /\ lzEffect.hasLoaded # hasLoaded
    /\ Len(lzLog) < MaxObserve
    /\ RunEffect(Unobserve(lzObserved, lzEffect.observer), threshold)
    /\ UNCHANGED <<threshold, isVisible, hasLoaded, lzIntersecting, lzMounted>>
    /\ UNCHANGED <<cacheVars, throttleVars, debounceVars, scrollVars, focusVars, announceVars, perfVars, handleVars,
                 modalVars>>

\* The owner re-renders the hook with another threshold: cleanup and effect.
LazyThreshold ==
    /\ lzMounted
    /\ Len(lzLog) < MaxObserve
    /\ \E th \in Thresholds \ {threshold} :
        /\ threshold' = th
        /\ RunEffect(Unobserve(lzObserved, lzEffect.observer), th)
    /\ UNCHANGED <<isVisible, hasLoaded, lzIntersecting, lzMounted>>
    /\ UNCHANGED <<cacheVars, throttleVars, debounceVars, scrollVars, focusVars, announceVars, perfVars, handleVars,
                 modalVars>>

\* The element scrolls into or out of the viewport: every observer of it is
\* notified.
LazyScroll ==
    /\ lzIntersecting' = ~lzIntersecting
    /\ lzObserved' = {[o EXCEPT !.notify = TRUE] : o \in lzObserved}
    /\ UNCHANGED <<threshold, isVisible, hasLoaded, lzEffect, lzMounted, lzLog>>
    /\ UNCHANGED <<cacheVars, throttleVars, debounceVars, scrollVars, focusVars, announceVars, perfVars, handleVars,
                 modalVars>>

\* Unmount: the effect's cleanup.
LazyUnmount ==
    /\ lzMounted
    /\ lzMounted' = FALSE
    /\ lzObserved' = Unobserve(lzObserved, lzEffect.observer)
    /\ UNCHANGED <<threshold, isVisible, hasLoaded, lzIntersecting, lzEffect, lzLog>>
    /\ UNCHANGED <<cacheVars, throttleVars, debounceVars, scrollVars, focusVars, announceVars, perfVars, handleVars,
                 modalVars>>

\* After the mount effect, with the element attached and the default
\* threshold: one observer observes it.
LazyInit ==
    /\ threshold = 1
    /\ isVisible = FALSE
    /\ hasLoaded = FALSE
    /\ lzObserved = {[id |-> 1, hasLoaded |-> FALSE, notify |-> TRUE]}
    /\ lzIntersecting = FALSE
    /\ lzEffect = [threshold |-> 1, hasLoaded |-> FALSE, observer |-> 1]
    /\ lzMounted = TRUE
    /\ lzLog = <<[threshold |-> 1, hasLoaded |-> FALSE]>>

(***************************************************************************)
(* useVirtualScroll.handleScroll                                           *)
(***************************************************************************)
\* The throttle delay of handleScroll. The clock runs in steps of HsStep ms
\* up to HsMaxTime; the element receives at most MaxScrollEvents scroll
\* events, with offsets up to MaxEventOffset; the host runs a due timer at
\* most HsMaxLate ms late.
ScrollThrottleDelay == 16
HsStep == 4
HsMaxTime == 40
HsMaxLate == 4
MaxScrollEvents == 3
MaxEventOffset == 2
EventOffsets == 0..MaxEventOffset

HsDateNow == Epoch + hsNow

\* The element's scrollTop: the offset of its last scroll event.
DomScrollTop == IF hsEvents = <<>> THEN 0 ELSE hsEvents[Len(hsEvents)].offset

\* e.currentTarget when a timer callback runs: React (like the DOM) resets it
\* to null when the dispatch of the event is over; an event object of
\* another origin may still refer to the element.
CurrentTargetsAfterDispatch == {"null", "element"}

\* A scroll event: the element is at a new offset and handleScroll(e) runs
\* during the dispatch, with e.currentTarget the element.
HsEvent ==
    /\ Len(hsEvents) < MaxScrollEvents
    /\ \E o \in EventOffsets \ {DomScrollTop} :
        /\ hsEvents' = Append(hsEvents, [t |-> hsNow, offset |-> o])
        /\ IF HsDateNow - hsLastCall >= ScrollThrottleDelay
           THEN /\ hsLastCall' = HsDateNow
                /\ scrollTop' = o
                /\ UNCHANGED <<hsTimeoutRef, hsTimers>>
           ELSE /\ hsTimers' = ClearTimeout(hsTimers, hsTimeoutRef)
                       \cup {[id |-> Len(hsEvents) + 1,
                              due |-> hsNow + ScrollThrottleDelay
                                          - (HsDateNow - hsLastCall)]}
                /\ hsTimeoutRef' = Len(hsEvents) + 1
                /\ UNCHANGED <<hsLastCall, scrollTop>>
    /\ UNCHANGED <<hsNow, hsErrors>>
    /\ UNCHANGED <<itemCount, itemHeight, containerHeight, overscan>>
    /\ UNCHANGED <<cacheVars, throttleVars, debounceVars, focusVars, announceVars, perfVars, lazyVars,
                 modalVars>>

\* The callback of a trailing timer runs, at or after its due time:
\* setScrollTop(e.currentTarget.scrollTop) is evaluated now.
HsTimer ==
    /\ \E tm \in hsTimers, target \in CurrentTargetsAfterDispatch :
        /\ hsNow >= tm.due
        /\ hsTimers' = hsTimers \ {tm}
        /\ hsLastCall' = HsDateNow
        /\ IF target = "null"
           THEN /\ hsErrors' = hsErrors + 1
                /\ UNCHANGED scrollTop
           ELSE /\ scrollTop' = DomScrollTop
                /\ UNCHANGED hsErrors
    /\ UNCHANGED <<hsNow, hsTimeoutRef, hsEvents>>
    /\ UNCHANGED <<itemCount, itemHeight, containerHeight, overscan>>
    /\ UNCHANGED <<cacheVars, throttleVars, debounceVars, focusVars, announceVars, perfVars, lazyVars,
                 modalVars>>

\* Time passes; a due timer is run at most HsMaxLate ms late.
HsTick ==
    /\ hsNow < HsMaxTime
    /\ \A tm \in hsTimers : hsNow < tm.due + HsMaxLate
    /\ hsNow' = hsNow + HsStep
    /\ UNCHANGED <<hsLastCall, hsTimeoutRef, hsTimers, hsEvents, hsErrors>>
    /\ UNCHANGED <<scrollVars, cacheVars, throttleVars, debounceVars, focusVars, announceVars, perfVars, lazyVars,
                 modalVars>>

HandleInit ==
    /\ hsNow = 0
    /\ hsLastCall = 0
    /\ hsTimeoutRef = 0
    /\ hsTimers = {}
    /\ hsEvents = <<>>
    /\ hsErrors = 0

(***************************************************************************)
(* AccessibleModal (useFocusManagement with the trap and the delayed       *)
(* focusFirst)                                                             *)
(***************************************************************************)
\* Open/close cycles the model follows.
MaxOpens == 2

\* trapFocus and focusFirst instances: FirstRender closes over useState([]),
\* AfterMountEffect over the snapshot the hook's mount effect has set. The
\* modal never calls updateFocusableElements, so there is no later instance.
FirstRender == 1
AfterMountEffect == 2
SnapshotOf(inst) == IF inst = FirstRender THEN <<>> ELSE focusableElements

\* document.addEventListener('keydown', trapFocus) and removeEventListener.
AddEventListener(listeners, inst) == listeners \cup {inst}

RemoveNoListener(listeners, inst) == listeners

RemoveEventListener(listeners, inst) == listeners \ {inst}

\* The trap effect of the first render and its re-run after the hook's mount
\* effect has replaced focusableElements (a new trapFocus instance).
TrapEffectAtMount(open) ==
    IF open
    THEN AddEventListener(
             RemoveEventListener(AddEventListener({}, FirstRender), FirstRender),
             AfterMountEffect)
    ELSE {}

\* The modal mounts, open (its container and content are in the first commit,
\* so the hook's mount effect finds the content) or closed (it renders null:
\* containerRef.current is null and the mount effect finds nothing).
ModalMount ==
    /\ ~mMounted
    /\ mOpens = 0
    /\ fKey = NoKey
    /\ \E open \in BOOLEAN, content \in SUBSET Elems :
        /\ mIsOpen' = open
        /\ fDom' = IF open THEN content ELSE {}
        /\ focusableElements' = IF open THEN SeqOf(content) ELSE <<>>
        /\ mListeners' = TrapEffectAtMount(open)
        /\ mTimers' = IF open THEN {FirstRender, AfterMountEffect} ELSE {}
        /\ mOpens' = IF open THEN 1 ELSE 0
    /\ mMounted' = TRUE
    /\ currentFocusIndex' = -1
    /\ activeElement' = Outside
    /\ trapActive' = (mListeners' # {})
    /\ fOp' = "mount"
    /\ UNCHANGED fKey
    /\ UNCHANGED <<cacheVars, throttleVars, debounceVars, scrollVars, announceVars, perfVars, lazyVars, handleVars>>

\* isOpen becomes true: the container renders with its content; the focus
\* effect arms the delayed focusFirst and the trap effect registers trapFocus.
\* The hook's mount effect does not run again.
ModalOpen ==
    /\ mMounted
    /\ ~mIsOpen
    /\ mOpens < MaxOpens
    /\ fKey = NoKey
    /\ mIsOpen' = TRUE
    /\ \E content \in SUBSET Elems : fDom' = content
    /\ mListeners' = AddEventListener(mListeners, AfterMountEffect)
    /\ mTimers' = mTimers \cup {AfterMountEffect}
    /\ mOpens' = mOpens + 1
    /\ trapActive' = TRUE
    /\ fOp' = "open"
    /\ UNCHANGED <<mMounted, focusableElements, currentFocusIndex, activeElement, fKey>>
    /\ UNCHANGED <<cacheVars, throttleVars, debounceVars, scrollVars, announceVars, perfVars, lazyVars, handleVars>>

\* isOpen becomes false: the modal renders null, the trap effect's cleanup
\* removes the listener, the focus effect restores the previous focus.
ModalClose ==
    /\ mMounted
    /\ mIsOpen
    /\ fKey = NoKey
    /\ mIsOpen' = FALSE
    /\ fDom' = {}
    /\ mListeners' = RemoveEventListener(mListeners, AfterMountEffect)
    /\ trapActive' = (mListeners' # {})
    /\ activeElement' = Outside
    /\ fOp' = "close"
    /\ UNCHANGED <<mMounted, mTimers, mOpens, focusableElements, currentFocusIndex, fKey>>
    /\ UNCHANGED <<cacheVars, throttleVars, debounceVars, scrollVars, announceVars, perfVars, lazyVars, handleVars>>

\* The modal unmounts: the cleanup of the trap effect, if it is open.
ModalUnmount ==
    /\ mMounted
    /\ fKey = NoKey
    /\ mMounted' = FALSE
    /\ mIsOpen' = FALSE
    /\ fDom' = {}
    /\ mListeners' = IF mIsOpen
                     THEN RemoveEventListener(mListeners, AfterMountEffect)
                     ELSE mListeners
    /\ trapActive' = (mListeners' # {})
    /\ activeElement' = Outside
    /\ fOp' = "unmount"
    /\ UNCHANGED <<mTimers, mOpens, focusableElements, currentFocusIndex, fKey>>
    /\ UNCHANGED <<cacheVars, throttleVars, debounceVars, scrollVars, announceVars, perfVars, lazyVars, handleVars>>

\* A delayed focusFirst() runs: focusElement(0) on the snapshot of its
\* instance.
ModalFocusTimer ==
    /\ fKey = NoKey
    /\ \E inst \in mTimers :
        /\ mTimers' = mTimers \ {inst}
        /\ IF SnapshotOf(inst) = <<>>
           THEN UNCHANGED <<activeElement, currentFocusIndex>>
           ELSE /\ activeElement' = focusElement(0).active
                /\ currentFocusIndex' = focusElement(0).index
    /\ fOp' = "focusTimer"
    /\ UNCHANGED <<mMounted, mIsOpen, mListeners, mOpens, fDom, focusableElements,
                   trapActive, fKey>>
    /\ UNCHANGED <<cacheVars, throttleVars, debounceVars, scrollVars, announceVars, perfVars, lazyVars, handleVars>>

\* trapFocus of a registered instance, run for a key event.
TrapOf(inst, key, shift) ==
    IF SnapshotOf(inst) = <<>>
    THEN [prevented |-> key = "Tab", active |-> activeElement,
          index |-> currentFocusIndex]
    ELSE trapFocus(key, shift)

\* A keydown event is dispatched to the document's listeners.
ModalKeyDown ==
    /\ fKey = NoKey
    /\ \E key \in {"Tab", "Enter"}, shift \in BOOLEAN :
        LET acting == {l \in mListeners : TrapOf(l, key, shift).prevented}
            r == IF acting = {}
                 THEN [prevented |-> FALSE, active |-> activeElement,
                       index |-> currentFocusIndex]
                 ELSE TrapOf(CHOOSE l \in acting : TRUE, key, shift)
        IN  /\ fKey' = [key |-> key, shift |-> shift, prevented |-> r.prevented]
            /\ activeElement' = r.active
            /\ currentFocusIndex' = r.index
    /\ fOp' = "keydown"
    /\ UNCHANGED <<fDom, focusableElements, trapActive>>
    /\ UNCHANGED <<modalVars, cacheVars, throttleVars, debounceVars, scrollVars, announceVars, perfVars, lazyVars, handleVars>>

\* No modal is mounted.
ModalInit ==
    /\ mMounted = FALSE
    /\ mIsOpen = FALSE
    /\ mListeners = {}
    /\ mTimers = {}
    /\ mOpens = 0

CacheInit ==
    /\ loadedResources = {}
    /\ loadingResources = {}
    /\ insts = {[loaded |-> {}, loading |-> {}]}
    /\ promises = <<>>
    /\ batches = <<>>

ThrottleInit ==
    /\ tNow = 0
    /\ lastCall = 0
    /\ timeoutRef = 0
    /\ tTimers = {}
    /\ tMounted = TRUE
    /\ calls = <<>>
    /\ execs = <<>>

DebounceInit ==
    /\ dNow = 0
    /\ value = 0
    /\ debouncedValue = 0
    /\ dTimers = {[id |-> 1, due |-> DebounceDelay, v |-> 0]}
    /\ dHandler = 1
    /\ dMounted = TRUE
    /\ changes = <<>>
    /\ pubs = <<>>

Init ==
    /\ CacheInit
    /\ ThrottleInit
    /\ DebounceInit
    /\ ScrollInit
    /\ FocusInit
    /\ AnnounceInit
    /\ PerfInit
    /\ LazyInit
    /\ HandleInit
    /\ ModalInit

Next ==
    \/ Render
    \/ CacheRequest
    \/ CacheBatch
    \/ CacheOnLoad
    \/ CacheOnError
    \/ CachePoll
    \/ CacheAllSettled

Spec == Init /\ [][Next]_vars

ThrottleNext ==
    \/ ThrottleCall
    \/ ThrottleTimer
    \/ ThrottleUnmount
    \/ ThrottleTick

ThrottleSpec == Init /\ [][ThrottleNext]_vars

DebounceNext ==
    \/ DebounceChange
    \/ DebounceTimer
    \/ DebounceUnmount
    \/ DebounceTick

DebounceSpec == Init /\ [][DebounceNext]_vars

ScrollNext ==
    \/ VsScroll
    \/ VsItemCount
    \/ VsItemHeight
    \/ VsContainerHeight
    \/ VsOverscan

ScrollSpec == Init /\ [][ScrollNext]_vars

FocusNext ==
    \/ focusFirst
    \/ focusLast
    \/ focusNext
    \/ focusPrevious
    \/ updateFocusableElements
    \/ FocusKeyDown
    \/ FocusDefault
    \/ FocusDomMutate
    \/ FocusUser
    \/ TrapToggle

FocusSpec == Init /\ [][FocusNext]_vars

AnnounceNext ==
    \/ Announce
    \/ AnnounceRemove
    \/ AnnounceTick

AnnounceSpec == Init /\ [][AnnounceNext]_vars

PerfNext ==
    \/ SamplerFrame
    \/ SamplerMemory
    \/ SamplerLoad
    \/ SamplerUnmount
    \/ SamplerTick

PerfSpec == Init /\ [][PerfNext]_vars

LazyNext ==
    \/ LazyIntersect
    \/ LazyRender
    \/ LazyThreshold
    \/ LazyScroll
    \/ LazyUnmount

LazySpec == Init /\ [][LazyNext]_vars

HandleNext ==
    \/ HsEvent
    \/ HsTimer
    \/ HsTick

HandleSpec == Init /\ [][HandleNext]_vars

ModalNext ==
    \/ ModalMount
    \/ ModalOpen
    \/ ModalClose
    \/ ModalUnmount
    \/ ModalFocusTimer
    \/ ModalKeyDown
    \/ FocusDefault
    \/ FocusUser

ModalSpec == Init /\ [][ModalNext]_vars

\* The event loop runs a due timer, and time passes.
AnnounceLiveSpec ==
    AnnounceSpec /\ WF_vars(AnnounceRemove) /\ WF_vars(AnnounceTick)

\* The event loop runs every due task: a pending re-render is rendered, an image
\* load ends in onload or onerror, an armed 100 ms timer fires, and a settled
\* Promise.allSettled resumes the awaiting function. Requests are inputs.
CacheFairness ==
    /\ WF_vars(Render)
    /\ WF_vars(CacheOnLoad \/ CacheOnError)
    /\ WF_vars(CachePoll)
    /\ WF_vars(CacheAllSettled)

CacheLiveSpec == Spec /\ CacheFairness

(***************************************************************************)
(* Claims about usePreload                                                 *)
(***************************************************************************)

\* C1: at most one underlying image load of a key is in flight at any time.
C1_AtMostOneLoadInFlight == \A k \in Keys : InFlight(k) <= 1

\* C2: every waiter (a promise returned while its key was Loading) settles
\* once no load of its key is in flight any more.
C2_WaitersSettle ==
    \A p \in 1..MaxPromises :
        (/\ p \in DOMAIN promises
         /\ promises[p].kind = "wait"
         /\ InFlight(promises[p].key) = 0)
        ~> (p \in DOMAIN promises /\ promises[p].status # "pending")

\* C3: once a key is loaded, no request for it starts a new underlying load.
C3_NoLoadAfterSuccess ==
    [][\A k \in Keys : isLoaded(k) => Started(k)' = Started(k)]_vars

\* A load of k has failed.
Failed(k) ==
    \E p \in DOMAIN promises :
        /\ promises[p].kind = "load"
        /\ promises[p].key = k
        /\ promises[p].status = "rejected"

\* C4: after a failed load of k has left k neither Loaded nor Loading, a
\* request for k starts a fresh underlying load.
C4_RetryAfterFailure ==
    [][\A k \in Keys :
          (Failed(k) /\ ~isLoaded(k) /\ ~isLoading(k))
          => \A p \in (DOMAIN promises') \ (DOMAIN promises) :
                 promises'[p].key = k => promises'[p].kind = "load"]_vars

\* C5: a preloadImages call completes once all underlying loads have settled.
C5_BatchCompletes ==
    \A b \in 1..MaxBatches :
        (b \in DOMAIN batches /\ \A k \in Keys : InFlight(k) = 0)
        ~> (b \in DOMAIN batches /\ batches[b].done)

(***************************************************************************)
(* Claims about useThrottle                                                *)
(***************************************************************************)

\* The last call up to call n that was coalesced (0: none).
LastCoalesced(n) ==
    LET coalesced == {j \in 1..n : ~calls[j].leading}
    IN  IF coalesced = {} THEN 0
        ELSE CHOOSE j \in coalesced : \A k \in coalesced : k <= j

\* The time of the execution that was the last one when call j was made.
PrevExecTime(j) == execs[calls[j].prevExec].t

\* Leading calls: a call made at least one delay after the last execution (or
\* before any execution) runs the callback at once with its own arguments; a
\* call made less than one delay after the last execution runs nothing.
LeadingCalls ==
    \A j \in DOMAIN calls :
        /\ calls[j].leading <=>
              (calls[j].prevExec = 0
               \/ calls[j].t - PrevExecTime(j) >= ThrottleDelay)
        /\ calls[j].leading =>
              /\ calls[j].prevExec + 1 \in DOMAIN execs
              /\ execs[calls[j].prevExec + 1] =
                     [t |-> calls[j].t, args |-> j, trailing |-> FALSE,
                      due |-> calls[j].t, nc |-> j]
        /\ ~calls[j].leading =>
              \A i \in DOMAIN execs : execs[i].args = j => execs[i].trailing

\* Coalescing: at most one trailing timer is pending; it carries the arguments
\* of the last coalesced call and is due one delay after the execution that
\* opened that call's window.
OneTrailingTimer ==
    /\ Cardinality(tTimers) <= 1
    /\ \A tm \in tTimers :
        /\ tm.args = LastCoalesced(Len(calls))
        /\ tm.due = PrevExecTime(tm.args) + ThrottleDelay

\* A trailing execution runs once, not before its due time, with the arguments
\* of the last call coalesced before it.
TrailingExecutions ==
    /\ \A i \in DOMAIN execs :
        execs[i].trailing =>
            /\ execs[i].args = LastCoalesced(execs[i].nc)
            /\ execs[i].due = PrevExecTime(execs[i].args) + ThrottleDelay
            /\ execs[i].t >= execs[i].due
    /\ \A i, j \in DOMAIN execs : execs[i].args = execs[j].args => i = j

\* The calls of the example: t = 0, 5, 15, 25 with a delay of 20 ms.
ExampleCalls ==
    /\ Len(calls) = 4
    /\ <<calls[1].t, calls[2].t, calls[3].t, calls[4].t>> = <<0, 5, 15, 25>>

\* Every trailing execution so far ran exactly when it was due.
Punctual == \A i \in DOMAIN execs : execs[i].t = execs[i].due

\* C6 (amended): leading calls execute at once, calls inside the window are
\* coalesced into one pending trailing timer carrying the last coalesced call's
\* arguments, due at the end of the window; calls at t = 0, 5, 15, 25 with a
\* delay of 20 ms and punctual timers give three executions: t = 0, t = 20
\* with the arguments of the t = 15 call, t = 40 with those of the t = 25 call.
C6_ThrottleCoalescing ==
    /\ LeadingCalls
    /\ OneTrailingTimer
    /\ TrailingExecutions
    /\ (ExampleCalls /\ tTimers = {} /\ Punctual) =>
          /\ Len(execs) = 3
          /\ <<execs[1].t, execs[2].t, execs[3].t>> = <<0, 20, 40>>
          /\ <<execs[1].args, execs[2].args, execs[3].args>> = <<1, 3, 4>>

\* C6 witness: the example has run to its end with punctual timers.
C6_Witness ==
    /\ ExampleCalls
    /\ tTimers = {}
    /\ Punctual
    /\ Len(execs) = 3

\* C6 as stated: the same coalescing, and calls at t = 0, 5, 15, 25 with a delay
\* of 20 ms give exactly two executions, at t = 0 and a trailing one with the
\* arguments of the t = 25 call no later than t = 40.
C6_ExampleTwoExecutions ==
    /\ LeadingCalls
    /\ OneTrailingTimer
    /\ TrailingExecutions
    /\ (ExampleCalls /\ tTimers = {} /\ Punctual) =>
          /\ Len(execs) = 2
          /\ execs[1].t = 0
          /\ execs[2].trailing
          /\ execs[2].args = 4
          /\ execs[2].t <= 40

\* C7: no two executions of the throttled callback are less than one delay
\* apart.
C7_RateBound ==
    \A i \in DOMAIN execs :
        i > 1 => execs[i].t - execs[i - 1].t >= ThrottleDelay

\* C10: after the owning component is unmounted the throttled callback is not
\* executed any more.
C10_NoExecutionAfterTeardown == [][~tMounted => execs' = execs]_vars

(***************************************************************************)
(* Claims about useDebounce                                                *)
(***************************************************************************)

\* The time and the value of the input after change number n (0: the mount).
ChangeTime(n) == IF n = 0 THEN 0 ELSE changes[n].t

ChangeValue(n) == IF n = 0 THEN 0 ELSE changes[n].v

\* The changes of the example: t = 0, 5, 10 with a delay of 20 ms.
ExampleChanges ==
    /\ Len(changes) = 3
    /\ <<changes[1].t, changes[2].t, changes[3].t>> = <<0, 5, 10>>

\* C8: every change resets the pending timer to one delay after the change;
\* a publication publishes the last value, once per burst, not before one
\* delay after the last change (at that time when the timer is punctual);
\* changes at t = 0, 5, 10 with a delay of 20 ms give one publication, at
\* t = 30, of the t = 10 value.
C8_Debounce ==
    /\ Cardinality(dTimers) <= 1
    /\ \A tm \in dTimers :
        /\ tm.v = value
        /\ tm.due = ChangeTime(Len(changes)) + DebounceDelay
    /\ \A i \in DOMAIN pubs :
        /\ pubs[i].v = ChangeValue(pubs[i].nch)
        /\ pubs[i].due = ChangeTime(pubs[i].nch) + DebounceDelay
        /\ pubs[i].t >= pubs[i].due
        /\ \A n \in (pubs[i].nch + 1)..Len(changes) :
               changes[n].t + DebounceDelay > pubs[i].due
        /\ \A j \in DOMAIN pubs : pubs[j].nch = pubs[i].nch => i = j
    /\ dMounted =>
          (dTimers = {} <=> \E i \in DOMAIN pubs : pubs[i].nch = Len(changes))
    /\ (ExampleChanges /\ dMounted /\ dTimers = {}) =>
          /\ Len(pubs) = 1
          /\ pubs[1].v = changes[3].v
          /\ pubs[1].due = 30
          /\ pubs[1].t >= 30
          /\ debouncedValue = changes[3].v

\* C8 witness: the example has run to its end, the publication made at t = 30.
C8_Witness ==
    /\ ExampleChanges
    /\ dTimers = {}
    /\ Len(pubs) = 1
    /\ pubs[1].t = 30

\* C9: once the owner is unmounted no timer is pending and nothing is
\* published any more.
C9_NoPublicationAfterUnmount ==
    [][~dMounted => (dTimers = {} /\ pubs' = pubs
                     /\ debouncedValue' = debouncedValue)]_vars

\* C9 witness: the owner was unmounted while the timer of the last change was
\* pending, and the time at which it was due has passed.
C9_Witness ==
    /\ ~dMounted
    /\ \A i \in DOMAIN pubs : pubs[i].nch # Len(changes)
    /\ dNow > ChangeTime(Len(changes)) + DebounceDelay

(***************************************************************************)
(* useVirtualScroll: C11 - C14                                             *)
(***************************************************************************)
IntMax(a, b) == IF a >= b THEN a ELSE b
IntMin(a, b) == IF a <= b THEN a ELSE b

\* The inputs of the documented example.
ExampleWindow ==
    /\ itemCount = 100
    /\ itemHeight = 40
    /\ containerHeight = 400
    /\ scrollTop = 800
    /\ overscan = 2

\* C11: for itemCount >= 0, itemHeight > 0, containerHeight >= 0,
\* scrollTop >= 0 and overscan >= 0 the hook returns
\* startIndex = max(0, floor(scrollTop/itemHeight) - overscan),
\* endIndex = min(itemCount-1, floor((scrollTop+containerHeight)/itemHeight)
\* + overscan), totalHeight = itemCount*itemHeight and
\* offsetY = startIndex*itemHeight; 100 items of height 40 in a container of
\* 400 at offset 800 with overscan 2 give 18, 32, 4000 and 720.
C11_VirtualWindow ==
    itemHeight > 0 =>
        LET first == IntMax(0, (scrollTop \div itemHeight) - overscan)
            last == IntMin(itemCount - 1,
                        ((scrollTop + containerHeight) \div itemHeight) + overscan)
        IN  /\ startIndex = Num(first)
            /\ endIndex = Num(last)
            /\ totalHeight = Num(itemCount * itemHeight)
            /\ offsetY = Num(first * itemHeight)
            /\ ExampleWindow =>
                   /\ startIndex = Num(18)
                   /\ endIndex = Num(32)
                   /\ totalHeight = Num(4000)
                   /\ offsetY = Num(720)

C11_Witness ==
    /\ ExampleWindow
    /\ startIndex = Num(18)
    /\ endIndex = Num(32)
    /\ offsetY = Num(720)

\* C12: whenever itemCount > 0, whatever scroll offset is held (one recorded
\* before itemCount or containerHeight changed included), startIndex and
\* endIndex are both in [0, itemCount-1] and startIndex <= endIndex.
C12_RangeInvariant ==
    (itemCount > 0 /\ itemHeight > 0) =>
        /\ IsNum(startIndex) /\ IsNum(endIndex)
        /\ startIndex[2] \in 0..(itemCount - 1)
        /\ endIndex[2] \in 0..(itemCount - 1)
        /\ startIndex[2] <= endIndex[2]

\* C13: with itemCount = 0 the range is empty (startIndex > endIndex) for
\* every itemHeight > 0, containerHeight, scrollTop and overscan.
C13_EmptyList ==
    (itemCount = 0 /\ itemHeight > 0) => JsLess(endIndex, startIndex)

C13_Witness ==
    /\ itemCount = 0
    /\ itemHeight > 1
    /\ scrollTop > 0
    /\ containerHeight > 0
    /\ overscan > 0
    /\ JsLess(endIndex, startIndex)

\* C14: a render with itemHeight <= 0 raises an error instead of returning
\* startIndex, endIndex, totalHeight and offsetY.
C14_FailFast == itemHeight <= 0 => useVirtualScrollThrows

(***************************************************************************)
(* useFocusManagement: C15 - C18                                           *)
(***************************************************************************)
FocusMoves == {"focusFirst", "focusLast", "focusNext", "focusPrevious"}

\* The index a movement selects according to its description.
Selected(op, i, n) ==
    CASE op = "focusFirst" -> 0
      [] op = "focusLast" -> n - 1
      [] op = "focusNext" -> (i + 1) % n
      [] op = "focusPrevious" -> IF i > 0 THEN i - 1 ELSE n - 1

\* C15: on a non-empty focusableElements focusFirst selects index 0,
\* focusLast length-1, focusNext moves from i to (i+1) mod length,
\* focusPrevious from i > 0 to i-1 and from 0 or -1 to length-1 (the selected
\* element, if still in the container, gets the focus); on an empty
\* focusableElements all four leave the tracked index and the focused element
\* unchanged.
C15_FocusMovement ==
    [][fOp' \in FocusMoves =>
          IF length > 0
          THEN LET sel == Selected(fOp', currentFocusIndex, length)
               IN  /\ currentFocusIndex' = sel
                   /\ sel + 1 \in DOMAIN focusableElements
                   /\ focusableElements[sel + 1] \in fDom
                          => activeElement' = focusableElements[sel + 1]
          ELSE UNCHANGED <<currentFocusIndex, activeElement>>]_vars

\* C16: after any sequence of refreshes and focus movements (a refresh that
\* finds fewer elements included) currentFocusIndex is in [-1, length-1].
C16_IndexInvariant == currentFocusIndex \in -1..(length - 1)

\* C17: while trapFocus is registered, Tab without Shift at the last element
\* of focusableElements cancels the default and focuses the first element;
\* Shift+Tab at the first cancels the default and focuses the last; Tab at
\* any other element of a non-empty focusableElements, and any other key,
\* neither cancels the default nor moves the focus.
C17_TrapRedirection ==
    [][(fOp' = "keydown" /\ fKey = NoKey /\ trapActive) =>
          LET first == focusableElements[1]
              last == focusableElements[length]
              tab == fKey'.key = "Tab"
              atLast == length > 0 /\ activeElement = last
              atFirst == length > 0 /\ activeElement = first
              elsewhere ==
                  /\ length > 0
                  /\ \E i \in DOMAIN focusableElements :
                         activeElement = focusableElements[i]
                  /\ IF fKey'.shift THEN ~atFirst ELSE ~atLast
          IN  /\ (tab /\ ~fKey'.shift /\ atLast) =>
                     /\ fKey'.prevented
                     /\ currentFocusIndex' = 0
                     /\ first \in fDom => activeElement' = first
              /\ (tab /\ fKey'.shift /\ atFirst) =>
                     /\ fKey'.prevented
                     /\ currentFocusIndex' = length - 1
                     /\ last \in fDom => activeElement' = last
              /\ ((tab /\ elsewhere) \/ ~tab) =>
                     /\ ~fKey'.prevented
                     /\ UNCHANGED <<currentFocusIndex, activeElement>>]_vars

\* Tab at the last of three elements has been redirected to the first.
C17_Witness ==
    /\ trapActive
    /\ fOp = "keydown"
    /\ fKey = [key |-> "Tab", shift |-> FALSE, prevented |-> TRUE]
    /\ length = 3
    /\ activeElement = focusableElements[1]
    /\ currentFocusIndex = 0

\* C18: while trapFocus is registered no Tab or Shift+Tab key event moves the
\* focus from an element of the container to one outside it, whatever element
\* is focused and whatever focusableElements holds.
C18_FocusContainment ==
    [][(fOp' = "default" /\ fKey.key = "Tab" /\ trapActive
            /\ activeElement \in fDom)
          => activeElement' \in fDom]_vars

(***************************************************************************)
(* useScreenReader: C19 - C20                                              *)
(***************************************************************************)
\* C19: every announce(message, priority) call attaches exactly one new
\* live-region node carrying that call's message and priority (polite when
\* none is given); calls that overlap in time, even with the same text, give
\* distinct nodes, and no call changes the text of another call's node.
C19_ChannelIsolation ==
    [][Len(aLog') = Len(aLog) + 1 =>
          LET call == aLog'[Len(aLog')]
              new == aNodes' \ aNodes
          IN  /\ Cardinality(new) = 1
              /\ Cardinality(aNodes') = Cardinality(aNodes) + 1
              /\ \A x \in new :
                     /\ x.text = call.message
                     /\ x.priority = IF call.priority = "undefined"
                                     THEN "polite" ELSE call.priority
                     /\ \A y \in aNodes : y.id # x.id
              /\ \A y \in aNodes : y \in aNodes']_vars

\* Two nodes with the same text and priority are attached at the same time.
C19_Witness ==
    \E x, y \in aNodes :
        /\ x.id # y.id
        /\ x.text = y.text
        /\ x.priority = y.priority
        /\ aLog[x.id].priority = "undefined"

RemovedIds == {aRemoved[i].id : i \in DOMAIN aRemoved}

\* C20: each node created by announce is removed exactly once, by its own
\* timer and not before 1000 ms after its creation; a removal neither removes
\* nor alters another call's node; when the calls have stopped the number of
\* attached announcement nodes returns to zero.
C20_BoundedLifetime ==
    /\ [][Len(aRemoved') = Len(aRemoved) + 1 =>
             LET r == aRemoved'[Len(aRemoved')]
             IN  /\ r.id \notin RemovedIds
                 /\ \E x \in aNodes : x.id = r.id
                 /\ aNodes' = {x \in aNodes : x.id # r.id}
                 /\ r.t >= aLog[r.id].t + 1000]_vars
    /\ [][Len(aRemoved') = Len(aRemoved) => \A x \in aNodes : x \in aNodes']_vars
    /\ \A n \in 1..MaxAnnounce :
           (\E x \in aNodes : x.id = n) ~> (n \in RemovedIds)
    /\ <>[](aNodes = {})

\* A node has been removed, 1000 ms after its call, while a later call's node
\* stays attached.
C20_Witness ==
    /\ Len(aRemoved) = 1
    /\ aRemoved[1].t = aLog[aRemoved[1].id].t + 1000
    /\ \E x \in aNodes : x.id # aRemoved[1].id /\ x.text = aLog[x.id].message

(***************************************************************************)
(* useVirtualScroll: C26, C29; usePreload: C28                             *)
(***************************************************************************)
\* A container of height 0 over a non-empty list, scrolled inside the list.
ZeroHeightContainer ==
    /\ containerHeight = 0
    /\ itemCount > 0
    /\ itemHeight > 0
    /\ scrollTop < itemCount * itemHeight

C28_LoadingAccuracy == \A k \in Keys : isLoading(k) <=> InFlight(k) > 0

\* C29: in every state visibleItems = endIndex - startIndex + 1 is in
\* [0, itemCount]: never negative, and 0 when itemCount = 0.
C29_VisibleItemCount ==
    itemHeight > 0 =>
        /\ IsNum(visibleItems)
        /\ visibleItems[2] \in 0..itemCount

(***************************************************************************)
(* usePerformance: C21, C24, C25                                           *)
(***************************************************************************)
\* C21: after the owner is torn down no animation-frame tick runs and no
\* memory sample is taken or published, whatever point of the tick/interval
\* cycle the teardown happens at.
C21_SamplerTeardown ==
    [][~pMounted =>
          /\ pOp' \notin {"frame", "memory", "load"}
          /\ UNCHANGED <<frameCount, lastTime, animationId, metrics, pMemory>>]_vars

\* Time has passed the next frame and the interval's due time after teardown.
C21_Witness ==
    /\ ~pMounted
    /\ pOp = "time"
    /\ pNow > pInterval.due
    /\ \A f \in pFrames : f.id # animationId

\* C24: every animation frame increments the frame counter by one; only on a
\* tick at least 1000 ms after the last reset fps = round(frames * 1000 /
\* elapsed) is published and the counter and reference time are reset (to 0
\* and to now); on every other tick fps and the reference time are
\* unchanged; every tick schedules the next tick.
C24_SamplerTick ==
    [][pOp' = "frame" =>
          LET elapsed == pNow - lastTime
              frames == frameCount + 1
          IN  /\ IF elapsed >= 1000
                 THEN /\ 2 * metrics'.fps * elapsed <= 2 * frames * 1000 + elapsed
                      /\ 2 * frames * 1000 + elapsed < 2 * (metrics'.fps + 1) * elapsed
                      /\ frameCount' = 0
                      /\ lastTime' = pNow
                 ELSE /\ frameCount' = frames
                      /\ metrics'.fps = metrics.fps
                      /\ lastTime' = lastTime
              /\ metrics'.memoryUsage = metrics.memoryUsage
              /\ metrics'.loadTime = metrics.loadTime
              /\ \E f \in pFrames' \ pFrames :
                     f.id = animationId' /\ f.at = pNow]_vars

\* The first tick at least 1000 ms after mount, at 2000 ms with three frames
\* counted, has published fps = round(3000/2000) = 2.
C24_Witness ==
    /\ pOp = "frame"
    /\ pMounted
    /\ metrics.fps = 2
    /\ frameCount = 0
    /\ lastTime = pNow
    /\ pNow = 2000
    /\ animationId = 3

\* C25: without the memory probe a memory-sampling tick leaves the whole
\* snapshot (memory, fps, load time) unchanged; with the probe it replaces
\* only the memory field, by the rounded figures of the probe.
C25_MemoryCapability ==
    [][pOp' = "memory" =>
          IF pMemory'.present
          THEN /\ metrics'.fps = metrics.fps
               /\ metrics'.loadTime = metrics.loadTime
               /\ metrics'.renderTime = metrics.renderTime
               /\ metrics'.memoryUsage.used * MegaByte * 2
                      \in (pMemory'.usedJSHeapSize * 2 - MegaByte + 1)
                              ..(pMemory'.usedJSHeapSize * 2 + MegaByte)
               /\ metrics'.memoryUsage.total * MegaByte * 2
                      \in (pMemory'.totalJSHeapSize * 2 - MegaByte + 1)
                              ..(pMemory'.totalJSHeapSize * 2 + MegaByte)
          ELSE metrics' = metrics]_vars

\* A sample without the probe has left a snapshot with fps and load time set.
C25_Witness ==
    /\ pOp = "memory"
    /\ ~pMemory.present
    /\ metrics.fps > 0
    /\ metrics.loadTime > 0
    /\ metrics.memoryUsage.used = 0

(***************************************************************************)
(* useLazyLoad: C23                                                        *)
(***************************************************************************)
\* C23: from the first intersecting report on isVisible and hasLoaded are
\* true and stay true, the element is unobserved, and no later observe call
\* is made on it for the same threshold.
C23_LazyOneShot ==
    /\ [](hasLoaded => isVisible)
    /\ [][hasLoaded => hasLoaded' /\ isVisible']_vars
    /\ [][(~hasLoaded /\ hasLoaded') => lzObserved' = {}]_vars
    /\ [][(hasLoaded /\ Len(lzLog') > Len(lzLog)) =>
             lzLog'[Len(lzLog')].threshold # threshold]_vars

(***************************************************************************)
(* useVirtualScroll.handleScroll: C22                                      *)
(***************************************************************************)
\* C22: once a burst of scroll events has ended and all pending timers have
\* fired, the scrollTop held equals the offset of the last scroll event.
C22_LatestOffsetWins ==
    (hsEvents # <<>> /\ hsTimers = {}) => scrollTop = DomScrollTop

(***************************************************************************)
(* AccessibleModal: C27, C30                                               *)
(***************************************************************************)
\* C27: once the modal is closed or unmounted no trapFocus is registered, so
\* no later Tab or Shift+Tab is cancelled or redirected by it, however often
\* the handler was registered anew while the modal was open.
C27_TrapRelease ==
    /\ [](~(mMounted /\ mIsOpen) => mListeners = {})
    /\ [][(fOp' = "keydown" /\ fKey = NoKey /\ ~(mMounted /\ mIsOpen)) =>
             /\ ~fKey'.prevented
             /\ UNCHANGED <<activeElement, currentFocusIndex>>]_vars

\* Tab is pressed after the modal, mounted open, was closed, reopened and
\* closed again; the event is not cancelled.
C27_Witness ==
    /\ mMounted
    /\ ~mIsOpen
    /\ mOpens = 2
    /\ focusableElements # <<>>
    /\ fOp = "keydown"
    /\ fKey = [key |-> "Tab", shift |-> FALSE, prevented |-> FALSE]

\* C30: whenever an AccessibleModal is open and its container holds a
\* focusable element, the focusableElements used by its trap and by
\* focusFirst is non-empty.
C30_ModalSnapshot ==
    (mMounted /\ mIsOpen /\ fDom # {}) =>
        /\ focusableElements # <<>>
        /\ \A l \in mListeners : SnapshotOf(l) # <<>>

====
